---- MODULE Spec2Model ----
(***************************************************************************)
(* Model of the ROJT generators.                                           *)
(*                                                                         *)
(*   Spec         the sculpture pipeline of sketch.js: buildSculpture and  *)
(*                the click handlers that call it.                         *)
(*   PackSpec     CirclePacker.pack (circle packing by random trials).     *)
(*   DiamondSpec  ParametricDiamond.createGeometry / addCube.              *)
(*   FrameSpec    the noise table, its reseeding, and the frames that      *)
(*                buildSculpture collects with drawCubeFrame.              *)
(*                                                                         *)
(* The four parts share no state; each specification leaves the other      *)
(* parts' variables at their initial values.  FrameSpec details the        *)
(* collection of primitives that Spec abstracts as a choice of classes.    *)
(***************************************************************************)
EXTENDS Integers, Sequences, FiniteSets, TLC

VARIABLES
    \* ---- sketch.js ----
    pc,                 \* position inside buildSculpture ("ready": not running)
    builds,             \* number of buildSculpture invocations started
    numCubes,           \* primitives a build generates (fixed by iSet, iPlus)
    lightMergedBrush,   \* sketch.js:97
    darkMergedBrush,    \* sketch.js:98
    sculptureGroup,     \* children of sculptureGroup, sketch.js:91
    downloadEnabled,    \* downloadLight / downloadDark buttons enabled
    allLightCubes,      \* local of buildSculpture, sketch.js:198
    allDarkCubes,       \* local of buildSculpture, sketch.js:199
    i,                  \* loop index of the running fold
    baseBrush,          \* local of buildSculpture, sketch.js:249
    lightFailed,        \* history: indices whose light ADDITION failed
    darkFailed,         \* history: indices whose dark ADDITION failed
    plateOutcome,       \* history: outcome of the plate ADDITION of this build
    subOutcome,         \* history: outcome of the SUBTRACTION of this build
    \* ---- CirclePacker ----
    packPc,             \* "idle", "loop" (inside pack) or "returned"
    packCalls,          \* number of pack calls made on the packer
    count,              \* argument of the running pack call
    circles,            \* this.circles
    placed,             \* local of pack
    trial,              \* loop variable i of pack: trials made so far
    \* ---- ParametricDiamond ----
    diamondPc,          \* "idle", "slice", "ring", "cube" or "done"
    diamondRadius,      \* this.radius
    diamondHeight,      \* this.height
    layers,             \* this.layers
    positions,          \* local of createGeometry: flat x, y, z list
    indices,            \* local of createGeometry: flat triangle index list
    sliceY,             \* loop variable y of createGeometry
    ring,               \* loop variable ring
    cubeI,              \* loop variable i of the innermost loop
    roundUp,            \* whether a quotient that is whole in exact arithmetic
                        \* comes out of the floating-point division just above it
    \* ---- sketch.js: noise table and frame generation ----
    framePc,            \* "ready", "shuffle", "copy" (New Seed) or "frames"
    permutation,        \* sketch.js:85, indexed from 0
    p,                  \* sketch.js:84, indexed from 0
    shuffleI,           \* loop variable i of the New Seed loops
    iSet,               \* sketch.js:89
    iPlus,              \* sketch.js:90
    lightDarkThreshold, \* sketch.js:94, in units of 1/20000
    frameI,             \* loop variable i of the frame loop, sketch.js:202
    lightCubes,         \* lightCubes returned by the last drawCubeFrame call
    darkCubes,          \* darkCubes returned by the last drawCubeFrame call
    numLight,           \* allLightCubes.length
    numDark,            \* allDarkCubes.length
    reads               \* history: indices of p read by the last drawCubeFrame

sculptVars == << pc, builds, numCubes, lightMergedBrush, darkMergedBrush,
                 sculptureGroup, downloadEnabled, allLightCubes, allDarkCubes,
                 i, baseBrush, lightFailed, darkFailed, plateOutcome, subOutcome >>

packVars == << packPc, packCalls, count, circles, placed, trial >>

diamondVars == << diamondPc, diamondRadius, diamondHeight, layers, positions,
                 indices, sliceY, ring, cubeI, roundUp >>

frameVars == << framePc, permutation, p, shuffleI, iSet, iPlus,
                lightDarkThreshold, frameI, lightCubes, darkCubes, numLight,
                numDark, reads >>

vars == << sculptVars, packVars, diamondVars, frameVars >>

(***************************************************************************)
(* Bounds                                                                  *)
(***************************************************************************)
MaxCubes == 3       \* primitives per build (the program generates 112..208)
MaxBuilds == 2      \* buildSculpture invocations explored
Attempts == 4       \* this.attempts, the trial budget (5000 in the program)
MaxCount == 2       \* largest count passed to pack
MaxPackCalls == 2   \* pack calls explored on one packer
BoundsWidth == 6    \* bounds.width (50 in the program)
BoundsHeight == 6   \* bounds.height (50 in the program)
MaxLayers == 3      \* largest layer count of a diamond
TableSize == 3      \* entries of the noise table (256 in the program)

\* The cap of the frame loop, line 202.
FrameLimit == 65

(***************************************************************************)
(* Brushes.  A brush is described by the primitives united into it         *)
(* (parts), the primitives carved out of it (cut) and whether its geometry *)
(* has been disposed.  A primitive is <<class, scan position>>; the base   *)
(* plate is <<"P", 0>>.                                                    *)
(***************************************************************************)
NoBrush == [parts |-> << >>, cut |-> << >>, disposed |-> FALSE]

IsSet(b) == b # NoBrush

createCube(class, k) ==
    [parts |-> << <<class, k>> >>, cut |-> << >>, disposed |-> FALSE]

BasePlate == [parts |-> << <<"P", 0>> >>, cut |-> << >>, disposed |-> FALSE]

Dispose(b) == IF IsSet(b) THEN [b EXCEPT !.disposed = TRUE] ELSE b

Outcomes == {"ok", "throw", "invalid"}

\* A result whose geometry has a position attribute holding no vertex.
EmptySolid == [parts |-> << <<"E", 0>> >>, cut |-> << >>, disposed |-> FALSE]

\* The outcomes of a SUBTRACTION: besides the above, the difference of two
\* solids can be empty (the light solid lies wholly inside the dark solid and
\* the plate); the union of two solids that have vertices cannot.
SubtractOutcomes == Outcomes \cup {"empty"}

\* csgEvaluator.evaluate(a, b, op) when it succeeds: a new brush.
Evaluate(a, b, op) ==
    IF op = "ADDITION"
    THEN [parts |-> a.parts \o b.parts, cut |-> a.cut \o b.cut, disposed |-> FALSE]
    ELSE [parts |-> a.parts, cut |-> a.cut \o b.parts, disposed |-> FALSE]

(***************************************************************************)
(* The per-step fault policy of buildSculpture.                            *)
(***************************************************************************)

\* Variant: no catch block, a thrown exception leaves buildSculpture.
AfterEvaluateNoCatch(outcome, next) ==
    IF outcome = "throw" THEN "aborted" ELSE next

\* Where control continues after csgEvaluator.evaluate returned or threw
\* inside try { ... } catch (error) { console.warn(...) }.
AfterEvaluate(outcome, next) == next

\* Variant: the result is assigned without the validity check.
FoldResultUnchecked(acc, cube, outcome) ==
    CASE outcome = "ok"    -> Evaluate(acc, cube, "ADDITION")
      [] outcome = "throw" -> acc
      [] OTHER             -> NoBrush

\* The accumulator after one iteration of a class fold.
FoldResult(acc, cube, outcome) ==
    IF outcome = "ok" THEN Evaluate(acc, cube, "ADDITION") ELSE acc

\* The dark accumulator after the plate ADDITION into a set accumulator.
PlateResult(acc, plate, outcome) ==
    CASE outcome = "ok"    -> Evaluate(acc, plate, "ADDITION")
      [] outcome = "throw" -> plate
      [] OTHER             -> acc

\* Variant: the result is assigned without the validity check.
SubtractResultUnchecked(light, dark, outcome) ==
    CASE outcome = "ok"    -> Evaluate(light, dark, "SUBTRACTION")
      [] outcome = "throw" -> light
      [] OTHER             -> NoBrush

\* The light accumulator after the SUBTRACTION of the dark solid.  The test
\* of line 278 asks whether result.geometry.attributes.position exists, not
\* whether it holds a vertex: an empty result passes it and is assigned.
SubtractResult(light, dark, outcome) ==
    CASE outcome = "ok"    -> Evaluate(light, dark, "SUBTRACTION")
      [] outcome = "empty" -> EmptySolid
      [] OTHER             -> light

\* The primitives of one class, in scan order (drawCubeFrame pushes each
\* boundary cell to lightCubes or darkCubes; buildSculpture concatenates).
CubesOfClass(cls, n, class) ==
    SelectSeq([k \in 1..n |-> createCube(cls[k], k)],
              LAMBDA c : c.parts[1][1] = class)

(***************************************************************************)
(* buildSculpture, step by step                                            *)
(***************************************************************************)

\* Lines 179-208: clear the group, dispose the old merged brushes, collect
\* the primitives of the concentric frames.
BuildStart(n, cls) ==
    /\ pc = "ready"
    /\ builds' = builds + 1
    /\ numCubes' = n
    /\ sculptureGroup' = << >>
    /\ lightMergedBrush' = Dispose(lightMergedBrush)
    /\ darkMergedBrush' = Dispose(darkMergedBrush)
    /\ allLightCubes' = CubesOfClass(cls, n, "L")
    /\ allDarkCubes' = CubesOfClass(cls, n, "D")
    /\ i' = 0
    /\ baseBrush' = NoBrush
    /\ lightFailed' = {}
    /\ darkFailed' = {}
    /\ plateOutcome' = "none"
    /\ subOutcome' = "none"
    /\ pc' = "light"
    /\ UNCHANGED << downloadEnabled, packVars, diamondVars, frameVars >>

\* Lines 211-212: seed the light accumulator with the first primitive.
LightSeed ==
    /\ pc = "light"
    /\ IF Len(allLightCubes) > 0
       THEN /\ lightMergedBrush' = allLightCubes[1]
            /\ i' = 1
            /\ pc' = "lightLoop"
       ELSE /\ pc' = "dark"
            /\ UNCHANGED << lightMergedBrush, i >>
    /\ UNCHANGED << builds, numCubes, darkMergedBrush, sculptureGroup,
                    downloadEnabled, allLightCubes, allDarkCubes, baseBrush,
                    lightFailed, darkFailed, plateOutcome, subOutcome,
                    packVars, diamondVars, frameVars >>

\* Lines 213-225: one iteration of the light fold (JS index i is element i+1).
LightAdd ==
    /\ pc = "lightLoop"
    /\ i < Len(allLightCubes)
    /\ \E outcome \in Outcomes :
         /\ lightMergedBrush' = FoldResult(lightMergedBrush, allLightCubes[i + 1], outcome)
         /\ lightFailed' = IF outcome = "ok" THEN lightFailed ELSE lightFailed \cup {i}
         /\ pc' = AfterEvaluate(outcome, "lightLoop")
    /\ allLightCubes' = [allLightCubes EXCEPT ![i + 1] = Dispose(@)]
    /\ i' = i + 1
    /\ UNCHANGED << builds, numCubes, darkMergedBrush, sculptureGroup,
                    downloadEnabled, allDarkCubes, baseBrush, darkFailed,
                    plateOutcome, subOutcome,
                    packVars, diamondVars, frameVars >>

\* Line 213: the light loop condition fails.
LightExit ==
    /\ pc = "lightLoop"
    /\ ~(i < Len(allLightCubes))
    /\ pc' = "dark"
    /\ i' = 0
    /\ UNCHANGED << builds, numCubes, lightMergedBrush, darkMergedBrush,
                    sculptureGroup, downloadEnabled, allLightCubes,
                    allDarkCubes, baseBrush, lightFailed, darkFailed,
                    plateOutcome, subOutcome,
                    packVars, diamondVars, frameVars >>

\* Lines 229-230: seed the dark accumulator with the first primitive.
DarkSeed ==
    /\ pc = "dark"
    /\ IF Len(allDarkCubes) > 0
       THEN /\ darkMergedBrush' = allDarkCubes[1]
            /\ i' = 1
            /\ pc' = "darkLoop"
       ELSE /\ pc' = "plate"
            /\ UNCHANGED << darkMergedBrush, i >>
    /\ UNCHANGED << builds, numCubes, lightMergedBrush, sculptureGroup,
                    downloadEnabled, allLightCubes, allDarkCubes, baseBrush,
                    lightFailed, darkFailed, plateOutcome, subOutcome,
                    packVars, diamondVars, frameVars >>

\* Lines 231-243: one iteration of the dark fold.
DarkAdd ==
    /\ pc = "darkLoop"
    /\ i < Len(allDarkCubes)
    /\ \E outcome \in Outcomes :
         /\ darkMergedBrush' = FoldResult(darkMergedBrush, allDarkCubes[i + 1], outcome)
         /\ darkFailed' = IF outcome = "ok" THEN darkFailed ELSE darkFailed \cup {i}
         /\ pc' = AfterEvaluate(outcome, "darkLoop")
    /\ allDarkCubes' = [allDarkCubes EXCEPT ![i + 1] = Dispose(@)]
    /\ i' = i + 1
    /\ UNCHANGED << builds, numCubes, lightMergedBrush, sculptureGroup,
                    downloadEnabled, allLightCubes, baseBrush, lightFailed,
                    plateOutcome, subOutcome,
                    packVars, diamondVars, frameVars >>

\* Line 231: the dark loop condition fails.
DarkExit ==
    /\ pc = "darkLoop"
    /\ ~(i < Len(allDarkCubes))
    /\ pc' = "plate"
    /\ i' = 0
    /\ UNCHANGED << builds, numCubes, lightMergedBrush, darkMergedBrush,
                    sculptureGroup, downloadEnabled, allLightCubes,
                    allDarkCubes, baseBrush, lightFailed, darkFailed,
                    plateOutcome, subOutcome,
                    packVars, diamondVars, frameVars >>

\* Lines 246-268: create the plate; darkMergedBrush is truthy, so ADD it.
PlateAdd ==
    /\ pc = "plate"
    /\ IsSet(darkMergedBrush)
    /\ baseBrush' = BasePlate
    /\ \E outcome \in Outcomes :
         /\ darkMergedBrush' = PlateResult(darkMergedBrush, BasePlate, outcome)
         /\ plateOutcome' = outcome
         /\ pc' = AfterEvaluate(outcome, "subtract")
    /\ UNCHANGED << builds, numCubes, lightMergedBrush, sculptureGroup,
                    downloadEnabled, allLightCubes, allDarkCubes, i,
                    lightFailed, darkFailed, subOutcome,
                    packVars, diamondVars, frameVars >>

\* Lines 246-254, 269-272: darkMergedBrush is null, the plate becomes it.
PlateOnly ==
    /\ pc = "plate"
    /\ ~IsSet(darkMergedBrush)
    /\ baseBrush' = BasePlate
    /\ darkMergedBrush' = BasePlate
    /\ pc' = "subtract"
    /\ UNCHANGED << builds, numCubes, lightMergedBrush, sculptureGroup,
                    downloadEnabled, allLightCubes, allDarkCubes, i,
                    lightFailed, darkFailed, plateOutcome, subOutcome,
                    packVars, diamondVars, frameVars >>

\* Lines 275-288: both brushes are truthy, SUBTRACT dark from light.
Subtract ==
    /\ pc = "subtract"
    /\ IsSet(lightMergedBrush) /\ IsSet(darkMergedBrush)
    /\ \E outcome \in SubtractOutcomes :
         /\ lightMergedBrush' = SubtractResult(lightMergedBrush, darkMergedBrush, outcome)
         /\ subOutcome' = outcome
         /\ pc' = AfterEvaluate(outcome, "scene")
    /\ UNCHANGED << builds, numCubes, darkMergedBrush, sculptureGroup,
                    downloadEnabled, allLightCubes, allDarkCubes, i, baseBrush,
                    lightFailed, darkFailed, plateOutcome,
                    packVars, diamondVars, frameVars >>

\* Line 275: the condition fails, the interlock is skipped.
SubtractSkip ==
    /\ pc = "subtract"
    /\ ~(IsSet(lightMergedBrush) /\ IsSet(darkMergedBrush))
    /\ pc' = "scene"
    /\ UNCHANGED << builds, numCubes, lightMergedBrush, darkMergedBrush,
                    sculptureGroup, downloadEnabled, allLightCubes,
                    allDarkCubes, i, baseBrush, lightFailed, darkFailed,
                    plateOutcome, subOutcome,
                    packVars, diamondVars, frameVars >>

\* Lines 290-311: add the solids to the group, enable the download buttons.
AddToScene ==
    /\ pc = "scene"
    /\ sculptureGroup' =
         (IF IsSet(lightMergedBrush) THEN << lightMergedBrush >> ELSE << >>)
         \o (IF IsSet(darkMergedBrush) THEN << darkMergedBrush >> ELSE << >>)
    /\ downloadEnabled' = TRUE
    /\ pc' = "ready"
    /\ UNCHANGED << builds, numCubes, lightMergedBrush, darkMergedBrush,
                    allLightCubes, allDarkCubes, i, baseBrush, lightFailed,
                    darkFailed, plateOutcome, subOutcome,
                    packVars, diamondVars, frameVars >>

\* The steps buildSculpture takes once it has started.
BuildStep ==
    \/ LightSeed \/ LightAdd \/ LightExit
    \/ DarkSeed \/ DarkAdd \/ DarkExit
    \/ PlateAdd \/ PlateOnly
    \/ Subtract \/ SubtractSkip
    \/ AddToScene

(***************************************************************************)
(* The callers of buildSculpture.  The light/dark class of each primitive  *)
(* is decided by the noise field and lightDarkThreshold; here it is any    *)
(* classification of the build's primitives.                               *)
(***************************************************************************)
Classes(n) == [1..n -> {"L", "D"}]

\* Line 410: the initial build, with the initial iSet and iPlus.
InitialBuild ==
    /\ builds = 0
    /\ \E n \in 1..MaxCubes : \E cls \in Classes(n) : BuildStart(n, cls)

\* Lines 316-320: new iSet and iPlus (a new number of primitives), rebuild.
Regenerate ==
    /\ builds >= 1 /\ builds < MaxBuilds
    /\ \E n \in 1..MaxCubes : \E cls \in Classes(n) : BuildStart(n, cls)

\* Lines 323-331: reshuffle the permutation table, rebuild (same frames).
NewSeed ==
    /\ builds >= 1 /\ builds < MaxBuilds
    /\ \E cls \in Classes(numCubes) : BuildStart(numCubes, cls)

\* Lines 350-364: a new lightDarkThreshold takes effect, rebuild (same frames).
ApplyBalance ==
    /\ builds >= 1 /\ builds < MaxBuilds
    /\ \E cls \in Classes(numCubes) : BuildStart(numCubes, cls)

SculptInit ==
    /\ pc = "ready"
    /\ builds = 0
    /\ numCubes = 0
    /\ lightMergedBrush = NoBrush
    /\ darkMergedBrush = NoBrush
    /\ sculptureGroup = << >>
    /\ downloadEnabled = FALSE
    /\ allLightCubes = << >>
    /\ allDarkCubes = << >>
    /\ i = 0
    /\ baseBrush = NoBrush
    /\ lightFailed = {}
    /\ darkFailed = {}
    /\ plateOutcome = "none"
    /\ subOutcome = "none"

(***************************************************************************)
(* CirclePacker.  Coordinates and radii are integers of a grid; a random   *)
(* draw is any grid value of the drawn range.                              *)
(***************************************************************************)

\* Candidate radii: minRadius + (maxRadius - minRadius) * u^e with u in
\* [0, 1) and 0 < e <= 1 covers [minRadius, maxRadius).
Radii == {1, 2}

\* (Math.random() - 0.5) * size covers [-size/2, size/2).
Centres(size) == {c \in -size..size : -size <= 2 * c /\ 2 * c < size}

\* Variant: the existing circle's radius is left out of the comparison.
isOverlappingOwnRadius(x, y, radius) ==
    \E k \in 1..Len(circles) :
        LET dx == x - circles[k].x
            dy == y - circles[k].y
        IN  dx * dx + dy * dy < radius * radius

\* Lines 17-28.  distance < radius + circle.radius, compared squared
\* (both sides are non-negative).
isOverlapping(x, y, radius) ==
    \E k \in 1..Len(circles) :
        LET dx == x - circles[k].x
            dy == y - circles[k].y
        IN  dx * dx + dy * dy
              < (radius + circles[k].radius) * (radius + circles[k].radius)

\* Lines 31-36.
isWithinBounds(x, y, radius) ==
    /\ 2 * (x - radius) > -BoundsWidth
    /\ 2 * (x + radius) < BoundsWidth
    /\ 2 * (y - radius) > -BoundsHeight
    /\ 2 * (y + radius) < BoundsHeight

\* Variant: the loop runs on the attempt budget alone.
LoopConditionBudgetOnly(t, n, c) == t < Attempts

\* Line 44: i < this.attempts && placed < count.
LoopCondition(t, n, c) == t < Attempts /\ n < c

\* Lines 39-41: pack(count) is called; the list is emptied.
PackCall ==
    /\ packPc \in {"idle", "returned"}
    /\ packCalls < MaxPackCalls
    /\ \E c \in 0..MaxCount : count' = c
    /\ packCalls' = packCalls + 1
    /\ circles' = << >>
    /\ placed' = 0
    /\ trial' = 0
    /\ packPc' = "loop"
    /\ UNCHANGED << sculptVars, diamondVars, frameVars >>

\* Lines 44-59: one placement trial.
PackTrial ==
    /\ packPc = "loop"
    /\ LoopCondition(trial, placed, count)
    /\ \E radius \in Radii, x \in Centres(BoundsWidth), y \in Centres(BoundsHeight) :
         IF isWithinBounds(x, y, radius) /\ ~isOverlapping(x, y, radius)
         THEN /\ circles' = Append(circles, [x |-> x, y |-> y, radius |-> radius])
              /\ placed' = placed + 1
         ELSE UNCHANGED << circles, placed >>
    /\ trial' = trial + 1
    /\ UNCHANGED << packPc, packCalls, count, sculptVars, diamondVars, frameVars >>

\* Lines 44, 61: the loop condition fails, pack returns this.circles.
PackReturn ==
    /\ packPc = "loop"
    /\ ~LoopCondition(trial, placed, count)
    /\ packPc' = "returned"
    /\ UNCHANGED << packCalls, count, circles, placed, trial, sculptVars,
                    diamondVars, frameVars >>

PackInit ==
    /\ packPc = "idle"
    /\ packCalls = 0
    /\ count = 0
    /\ circles = << >>
    /\ placed = 0
    /\ trial = 0

PackStep == PackTrial \/ PackReturn

(***************************************************************************)
(* ParametricDiamond.  Lengths are integers in units of 1/(80 * layers),   *)
(* in which the cube edge, 0.4 * height and 0.475 * cubeSize are whole, so *)
(* the slice arithmetic is exact.  The program computes in floating point: *)
(* y accumulates rounding error, so where maxRadius / cubeSize is a whole  *)
(* number m in exact arithmetic Math.ceil yields m or m + 1.  roundUp,     *)
(* drawn per diamond, selects between the two; the first slice, where      *)
(* y = -height and maxRadius = 0 are exact, always has no ring.            *)
(***************************************************************************)

\* (radius, height) pairs of the diamonds explored.  The constructor accepts
\* any numbers: the pairs with a zero are the degenerate diamonds, whose
\* cubeSize is 0.
DiamondShapes == { <<3, 2>>, <<1, 1>>, <<2, 3>>, <<2, 5>>,
                   <<0, 0>>, <<0, 2>>, <<2, 0>> }

Scale(l) == 80 * l

Min(a, b) == IF a <= b THEN a ELSE b
Max(a, b) == IF a >= b THEN a ELSE b

\* Math.ceil(a / b) for b > 0.
CeilDiv(a, b) == -((-a) \div b)

\* Line 75: Math.min(radius, height) / (layers * 2).
CubeSize(r, h, l) == (Min(r, h) * Scale(l)) \div (l * 2)

\* Variant: the top of the slice range is this.height.
TopHeightFull(h, l) == h * Scale(l)

\* Line 111: this.height * 0.4.
TopHeight(h, l) == (h * Scale(l) * 4) \div 10

\* Line 112: -this.height.
BottomHeight(h, l) == -(h * Scale(l))

\* Line 81 with line 137: s = (cubeSize * 0.95) / 2.
HalfSize(cs) == (cs * 95) \div 200

\* Lines 116-121: maxRadius as the fraction num / den (den > 0).
MaxRadiusNum(r, h, l, yy) ==
    IF yy > 0 THEN r * Scale(l) * (TopHeight(h, l) - yy)
              ELSE r * Scale(l) * (h * Scale(l) + yy)
MaxRadiusDen(h, l, yy) ==
    IF yy > 0 THEN TopHeight(h, l) ELSE h * Scale(l)

\* Line 123: Math.ceil(maxRadius / cubeSize).  When radius or height is 0 the
\* quotient is 0 / 0 or NaN / 0, so numRings is NaN and ring < numRings is
\* false for every ring: as many rings as with numRings = 0.
NumRings(r, h, l, yy, up) ==
    LET num == MaxRadiusNum(r, h, l, yy)
        den == MaxRadiusDen(h, l, yy) * CubeSize(r, h, l)
    IN  IF den = 0 THEN 0
        ELSE IF up /\ num % den = 0 /\ yy # BottomHeight(h, l)
        THEN CeilDiv(num, den) + 1
        ELSE CeilDiv(num, den)

\* Lines 126-128: Math.max(1, Math.floor(2 * PI * ringRadius / cubeSize)),
\* with ringRadius = ring * cubeSize and 710/113 for 2 * PI (exact for
\* ring < 113).
NumCubes(rg) == Max(1, (710 * rg) \div 113)

\* amp * sin(2 * PI * a / b), by Bhaskara's rational approximation (within
\* 0.25 % of amp), rounded down to the grid.
SinTurn(a, b, amp) ==
    LET a2 == a % b
    IN  IF 2 * a2 <= b
        THEN LET q == 2 * a2 * (b - 2 * a2)
             IN  (16 * amp * q) \div (5 * b * b - 4 * q)
        ELSE LET q == (2 * a2 - b) * (2 * b - 2 * a2)
             IN  -((16 * amp * q) \div (5 * b * b - 4 * q))

\* Line 132: Math.cos(angle) * ringRadius, angle = (i / numCubes) * 2 * PI.
CubeX(k, n, ringRadius) == SinTurn(4 * k + n, 4 * n, ringRadius)

\* Line 133: Math.sin(angle) * ringRadius.
CubeZ(k, n, ringRadius) == SinTurn(k, n, ringRadius)

\* Lines 135-136: dist <= maxRadius, where dist = sqrt(x*x + z*z) is the
\* ring radius (cos^2 + sin^2 = 1).
WithinEnvelope(ringRadius, num, den) == ringRadius * den <= num

\* Variant: the start index is the flat length, not the vertex count.
StartIdxFlat(pos) == Len(pos)

\* Line 80: positions.length / 3.
StartIdx(pos) == Len(pos) \div 3

\* Lines 94-98: the 12 triangles of a cube, flattened.
Faces == << 0, 1, 2,  0, 2, 3,  5, 4, 7,  5, 7, 6,
            4, 0, 3,  4, 3, 7,  1, 5, 6,  1, 6, 2,
            3, 2, 6,  3, 6, 7,  4, 5, 1,  4, 1, 0 >>

\* Lines 84-91: positions after addCube pushed its 8 vertices.
AddCubePositions(pos, x, y, z, s) ==
    pos \o << x - s, y - s, z - s,   x + s, y - s, z - s,
              x + s, y + s, z - s,   x - s, y + s, z - s,
              x - s, y - s, z + s,   x + s, y - s, z + s,
              x + s, y + s, z + s,   x - s, y + s, z + s >>

\* Lines 100-102: indices after addCube pushed its 12 triangles.
AddCubeIndices(ind, startIdx) ==
    ind \o [k \in 1..Len(Faces) |-> startIdx + Faces[k]]

\* Lines 71-76, 107-115: new ParametricDiamond(r, h, l).createGeometry().
NewDiamond ==
    /\ diamondPc = "idle"
    /\ \E shape \in DiamondShapes, l \in 1..MaxLayers :
         /\ diamondRadius' = shape[1]
         /\ diamondHeight' = shape[2]
         /\ layers' = l
         /\ sliceY' = BottomHeight(shape[2], l)
    /\ roundUp' \in BOOLEAN
    /\ positions' = << >>
    /\ indices' = << >>
    /\ ring' = 0
    /\ cubeI' = 0
    /\ diamondPc' = "slice"
    /\ UNCHANGED << sculptVars, packVars, frameVars >>

\* Lines 115-125: the slice loop condition holds; start the ring loop.
SliceEnter ==
    /\ diamondPc = "slice"
    /\ sliceY <= TopHeight(diamondHeight, layers)
    /\ ring' = 0
    /\ diamondPc' = "ring"
    /\ UNCHANGED << diamondRadius, diamondHeight, layers, roundUp, positions, indices,
                    sliceY, cubeI, sculptVars, packVars, frameVars >>

\* Lines 115, 143-148: the slice loop condition fails; return the geometry.
GeometryReturn ==
    /\ diamondPc = "slice"
    /\ ~(sliceY <= TopHeight(diamondHeight, layers))
    /\ diamondPc' = "done"
    /\ UNCHANGED << diamondRadius, diamondHeight, layers, roundUp, positions, indices,
                    sliceY, ring, cubeI, sculptVars, packVars, frameVars >>

\* Lines 125-130: the ring loop condition holds; start the cube loop.
RingEnter ==
    /\ diamondPc = "ring"
    /\ ring < NumRings(diamondRadius, diamondHeight, layers, sliceY, roundUp)
    /\ cubeI' = 0
    /\ diamondPc' = "cube"
    /\ UNCHANGED << diamondRadius, diamondHeight, layers, roundUp, positions, indices,
                    sliceY, ring, sculptVars, packVars, frameVars >>

\* Lines 115, 125: the ring loop condition fails; y += cubeSize.
RingExit ==
    /\ diamondPc = "ring"
    /\ ~(ring < NumRings(diamondRadius, diamondHeight, layers, sliceY, roundUp))
    /\ sliceY' = sliceY + CubeSize(diamondRadius, diamondHeight, layers)
    /\ diamondPc' = "slice"
    /\ UNCHANGED << diamondRadius, diamondHeight, layers, roundUp, positions, indices,
                    ring, cubeI, sculptVars, packVars, frameVars >>

\* Lines 130-139: one iteration of the cube loop.
CubeStamp ==
    /\ diamondPc = "cube"
    /\ cubeI < NumCubes(ring)
    /\ LET cs == CubeSize(diamondRadius, diamondHeight, layers)
           ringRadius == ring * cs
           n == NumCubes(ring)
       IN  IF WithinEnvelope(ringRadius,
                             MaxRadiusNum(diamondRadius, diamondHeight, layers, sliceY),
                             MaxRadiusDen(diamondHeight, layers, sliceY))
           THEN /\ positions' = AddCubePositions(positions,
                                                 CubeX(cubeI, n, ringRadius), sliceY,
                                                 CubeZ(cubeI, n, ringRadius),
                                                 HalfSize(cs))
                /\ indices' = AddCubeIndices(indices, StartIdx(positions))
           ELSE UNCHANGED << positions, indices >>
    /\ cubeI' = cubeI + 1
    /\ UNCHANGED << diamondPc, diamondRadius, diamondHeight, layers, roundUp,
                    sliceY, ring, sculptVars, packVars, frameVars >>

\* Lines 125, 130: the cube loop condition fails; ring++.
CubeExit ==
    /\ diamondPc = "cube"
    /\ ~(cubeI < NumCubes(ring))
    /\ ring' = ring + 1
    /\ diamondPc' = "ring"
    /\ UNCHANGED << diamondRadius, diamondHeight, layers, roundUp, positions, indices,
                    sliceY, cubeI, sculptVars, packVars, frameVars >>

DiamondInit ==
    /\ diamondPc = "idle"
    /\ diamondRadius = 1
    /\ diamondHeight = 1
    /\ layers = 1
    /\ positions = << >>
    /\ indices = << >>
    /\ sliceY = 0
    /\ ring = 0
    /\ cubeI = 0
    /\ roundUp = FALSE

(***************************************************************************)
(* The noise field and the frame generator of sketch.js.  Coordinates      *)
(* handed to noise are integers in units of 1/20 (absX / 10 and            *)
(* absX * 0.05 are whole in it), fade values are in units of 1/1000 and    *)
(* noise values in units of 1/20000.  The table has TableSize entries      *)
(* where the program has 256, so "& 255" is "% TableSize".                 *)
(***************************************************************************)
Twentieth == 20

Thousandth == 1000

\* One, in the unit of noise values.
NoiseOne == Twentieth * Thousandth

\* Line 75: t * t * t * (t * (t * 6 - 15) + 10), for t = a / 20.
fade(a) == (a * a * a * (a * (a * 6 - 300) + 4000)) \div 3200

\* Line 76: a + t * (b - a).
lerp(t, a, b) == a + (t * (b - a)) \div Thousandth

\* Lines 77-82.
grad(hash, x, y, z) ==
    LET h == hash % 16
        u == IF h < 8 THEN x ELSE y
        v == IF h < 4 THEN y ELSE IF h = 12 \/ h = 14 THEN x ELSE z
    IN  (IF h % 2 = 0 THEN u ELSE -u) + (IF (h \div 2) % 2 = 0 THEN v ELSE -v)

\* Lines 53-55 and 62-67: the cell of the point and the table indices of its
\* corners.
NoiseCell(xn, yn, zn) ==
    LET X == (xn \div Twentieth) % TableSize
        Y == (yn \div Twentieth) % TableSize
        Z == (zn \div Twentieth) % TableSize
        A == (p[X] + Y) % TableSize
        B == (p[X + 1] + Y) % TableSize
    IN  [X |-> X, A |-> A, B |-> B,
         AA |-> (p[A] + Z) % TableSize, BA |-> (p[B] + Z) % TableSize,
         AB |-> (p[A + 1] + Z) % TableSize, BB |-> (p[B + 1] + Z) % TableSize]

\* Lines 52-73.
noise(xn, yn, zn) ==
    LET c == NoiseCell(xn, yn, zn)
        x == xn % Twentieth
        y == yn % Twentieth
        z == zn % Twentieth
        u == fade(x)
        v == fade(y)
        w == fade(z)
        g(hash, gx, gy, gz) == Thousandth * grad(hash, gx, gy, gz)
    IN  lerp(w,
          lerp(v, lerp(u, g(p[c.AA], x, y, z),
                          g(p[c.BA], x - Twentieth, y, z)),
                  lerp(u, g(p[c.AB], x, y - Twentieth, z),
                          g(p[c.BB], x - Twentieth, y - Twentieth, z))),
          lerp(v, lerp(u, g(p[c.AA + 1], x, y, z - Twentieth),
                          g(p[c.BA + 1], x - Twentieth, y, z - Twentieth)),
                  lerp(u, g(p[c.AB + 1], x, y - Twentieth, z - Twentieth),
                          g(p[c.BB + 1], x - Twentieth, y - Twentieth,
                            z - Twentieth))))

\* The indices of p that noise(xn, yn, zn) reads.
NoiseReads(xn, yn, zn) ==
    LET c == NoiseCell(xn, yn, zn)
    IN  {c.X, c.X + 1, c.A, c.A + 1, c.B, c.B + 1, c.AA, c.BA, c.AB, c.BB,
         c.AA + 1, c.BA + 1, c.AB + 1, c.BB + 1}

\* Variant: the coordinate is used as it is.
AbsSigned(x) == x

\* Math.abs, lines 143-144.
Abs(x) == IF x < 0 THEN -x ELSE x

\* Variant: a sample equal to the threshold counts as light.
IsLightInclusive(noiseVal, threshold) == noiseVal >= threshold

\* Line 152: noiseVal > lightDarkThreshold.
IsLight(noiseVal, threshold) == noiseVal > threshold

\* Lengths of a primitive are in units of 1/240000, in which size / 30 * 5
\* * nF is whole for nF in units of 1/40000.
LengthOne == 12 * NoiseOne

\* The 0.01 of lines 118-119.
MinDimension == LengthOne \div 100

\* Lines 146, 154-155 and 159-160: nF2 is 2 * nF in noise units;
\* size / 30 * factor * nF.
Extrusion(size, factor, nF2) == (6 * size * factor * nF2) \div 30

\* Lines 116-131: the box createCube makes at (x, y, z): its edge and height
\* are raised to 0.01.
CubeAt(x, y, z, size, height, isDark) ==
    [x |-> x, y |-> y, z |-> z,
     size |-> Max(size * LengthOne, MinDimension),
     height |-> Max(height, MinDimension),
     isDark |-> isDark]

\* Lines 143-163: the primitive of the lattice point (x, y).
FrameCube(x, y, size) ==
    LET absX == Abs(x)
        absY == Abs(y)
        nF2 == noise(2 * absX, 2 * absY, Twentieth * size) + NoiseOne
        noiseVal == noise(absX, absY, 0)
    IN  IF IsLight(noiseVal, lightDarkThreshold)
        THEN CubeAt(x, y, Extrusion(size, 15, nF2), size,
                    Extrusion(size, 30, nF2), FALSE)
        ELSE CubeAt(x, y, Extrusion(size, 5, nF2), size,
                    Extrusion(size, 10, nF2), TRUE)

\* Lines 138-139: the number of values x (and y) takes, from -side / 2 in
\* steps of size while x <= side / 2.
GridSteps(side, size) == side \div size + 1

\* Lines 138-139: the k-th lattice point (from 0) in scan order.
GridPoint(k, side, size) ==
    << (k \div GridSteps(side, size)) * size - side \div 2,
       (k % GridSteps(side, size)) * size - side \div 2 >>

\* Line 141: the point is on an edge of the square.
OnEdge(x, y, side) ==
    x = -(side \div 2) \/ x = side \div 2 \/ y = -(side \div 2) \/ y = side \div 2

\* The boundary lattice points of the frame, in scan order.
EdgePoints(side, size) ==
    SelectSeq([k \in 1..(GridSteps(side, size) * GridSteps(side, size)) |->
                 GridPoint(k - 1, side, size)],
              LAMBDA pt : OnEdge(pt[1], pt[2], side))

\* Lines 134-176.
drawCubeFrame(side, size) ==
    LET pts == EdgePoints(side, size)
        cubes == [k \in 1..Len(pts) |-> FrameCube(pts[k][1], pts[k][2], size)]
    IN  [lightCubes |-> SelectSeq(cubes, LAMBDA c : ~c.isDark),
         darkCubes |-> SelectSeq(cubes, LAMBDA c : c.isDark)]

\* The indices of p read by drawCubeFrame(side, size).
FrameReads(side, size) ==
    LET pts == EdgePoints(side, size)
    IN  UNION { NoiseReads(2 * Abs(pts[k][1]), 2 * Abs(pts[k][2]),
                           Twentieth * size)
                \cup NoiseReads(Abs(pts[k][1]), Abs(pts[k][2]), 0) :
                k \in 1..Len(pts) }

\* The table the program starts with (line 85), scaled to TableSize entries.
InitialPermutation == [k \in 0..(TableSize - 1) |-> (k + 1) % TableSize]

\* Lines 86 and 329: p[i] = p[i + 256] = permutation[i], for one i.
CopyEntry(table, perm, k) ==
    [table EXCEPT ![k] = perm[k], ![k + TableSize] = perm[k]]

\* Variant: the entry at b is overwritten and the one at a kept.
SwapOverwrite(perm, a, b) == [perm EXCEPT ![b] = perm[a]]

\* Line 327: [permutation[i], permutation[j]] = [permutation[j], permutation[i]].
Swap(perm, a, b) == [perm EXCEPT ![a] = perm[b], ![b] = perm[a]]

\* Lines 89-90, 317-318: Math.floor(Math.random() * 5 + 5).  Math.random()
\* is below 1, but for its largest values (1 - 2^-52, 1 - 2^-53) the double
\* sum Math.random() * 5 + 5 rounds to 10.
RandomStart == 5..10

\* Values of the balance slider (lines 350-351), in noise units: -1, 0, 1.
Thresholds == {-NoiseOne, 0, NoiseOne}

\* Lines 179-201: buildSculpture starts collecting the frames.
StartFrames(start) ==
    /\ frameI' = start
    /\ lightCubes' = << >>
    /\ darkCubes' = << >>
    /\ numLight' = 0
    /\ numDark' = 0
    /\ reads' = {}
    /\ framePc' = "frames"

\* Lines 84-90 and 410: the script fills p, draws iSet and iPlus and makes
\* the initial build.
LoadScript ==
    /\ framePc = "load"
    /\ iSet' \in RandomStart
    /\ iPlus' \in RandomStart
    /\ StartFrames(iSet')
    /\ UNCHANGED << permutation, p, shuffleI, lightDarkThreshold,
                    sculptVars, packVars, diamondVars >>

\* Lines 316-320: the Regenerate button.
RegenerateClick ==
    /\ framePc = "ready"
    /\ iSet' \in RandomStart
    /\ iPlus' \in RandomStart
    /\ StartFrames(iSet')
    /\ UNCHANGED << permutation, p, shuffleI, lightDarkThreshold,
                    sculptVars, packVars, diamondVars >>

\* Lines 350-360: the balance slider.
BalanceInput ==
    /\ framePc = "ready"
    /\ lightDarkThreshold' \in Thresholds
    /\ UNCHANGED << framePc, permutation, p, shuffleI, iSet, iPlus, frameI,
                    lightCubes, darkCubes, numLight, numDark, reads,
                    sculptVars, packVars, diamondVars >>

\* Lines 362-364: the Apply Balance button.
ApplyBalanceClick ==
    /\ framePc = "ready"
    /\ StartFrames(iSet)
    /\ UNCHANGED << permutation, p, shuffleI, iSet, iPlus, lightDarkThreshold,
                    sculptVars, packVars, diamondVars >>

\* Lines 323-325: the New Seed button; the shuffle loop starts.
NewSeedClick ==
    /\ framePc = "ready"
    /\ framePc' = "shuffle"
    /\ shuffleI' = 0
    /\ UNCHANGED << permutation, p, iSet, iPlus, lightDarkThreshold, frameI,
                    lightCubes, darkCubes, numLight, numDark, reads,
                    sculptVars, packVars, diamondVars >>

\* Lines 325-328: one iteration of the shuffle loop.
ShuffleSwap ==
    /\ framePc = "shuffle"
    /\ shuffleI < TableSize
    /\ \E j \in 0..(TableSize - 1) :
         permutation' = Swap(permutation, shuffleI, j)
    /\ shuffleI' = shuffleI + 1
    /\ UNCHANGED << framePc, p, iSet, iPlus, lightDarkThreshold, frameI,
                    lightCubes, darkCubes, numLight, numDark, reads,
                    sculptVars, packVars, diamondVars >>

\* Lines 325, 329: the shuffle loop ends; the copy loop starts.
ShuffleExit ==
    /\ framePc = "shuffle"
    /\ ~(shuffleI < TableSize)
    /\ framePc' = "copy"
    /\ shuffleI' = 0
    /\ UNCHANGED << permutation, p, iSet, iPlus, lightDarkThreshold, frameI,
                    lightCubes, darkCubes, numLight, numDark, reads,
                    sculptVars, packVars, diamondVars >>

\* Line 329: one iteration of the copy loop.
CopyStep ==
    /\ framePc = "copy"
    /\ shuffleI < TableSize
    /\ p' = CopyEntry(p, permutation, shuffleI)
    /\ shuffleI' = shuffleI + 1
    /\ UNCHANGED << framePc, permutation, iSet, iPlus, lightDarkThreshold,
                    frameI, lightCubes, darkCubes, numLight, numDark, reads,
                    sculptVars, packVars, diamondVars >>

\* Lines 329-330: the copy loop ends; buildSculpture is called.
CopyExit ==
    /\ framePc = "copy"
    /\ ~(shuffleI < TableSize)
    /\ StartFrames(iSet)
    /\ UNCHANGED << permutation, p, shuffleI, iSet, iPlus, lightDarkThreshold,
                    sculptVars, packVars, diamondVars >>

\* Lines 202-206: one iteration of the frame loop.
FrameStep ==
    /\ framePc = "frames"
    /\ frameI <= FrameLimit
    /\ \E frame \in {drawCubeFrame(frameI * 4, frameI)} :
           /\ lightCubes' = frame.lightCubes
           /\ darkCubes' = frame.darkCubes
           /\ numLight' = numLight + Len(frame.lightCubes)
           /\ numDark' = numDark + Len(frame.darkCubes)
    /\ reads' = FrameReads(frameI * 4, frameI)
    /\ frameI' = frameI + iPlus
    /\ UNCHANGED << framePc, permutation, p, shuffleI, iSet, iPlus,
                    lightDarkThreshold, sculptVars, packVars, diamondVars >>

\* Line 202: the frame loop condition fails; buildSculpture goes on to the
\* folds and returns, which ends the life of its locals.
FrameLoopExit ==
    /\ framePc = "frames"
    /\ ~(frameI <= FrameLimit)
    /\ framePc' = "ready"
    /\ frameI' = 0
    /\ lightCubes' = << >>
    /\ darkCubes' = << >>
    /\ numLight' = 0
    /\ numDark' = 0
    /\ reads' = {}
    /\ UNCHANGED << permutation, p, shuffleI, iSet, iPlus, lightDarkThreshold,
                    sculptVars, packVars, diamondVars >>

FrameInit ==
    /\ framePc = "load"
    /\ permutation = InitialPermutation
    /\ p = [k \in 0..(2 * TableSize - 1) |-> InitialPermutation[k % TableSize]]
    /\ shuffleI = 0
    /\ iSet = 0
    /\ iPlus = 0
    /\ lightDarkThreshold = 0
    /\ frameI = 0
    /\ lightCubes = << >>
    /\ darkCubes = << >>
    /\ numLight = 0
    /\ numDark = 0
    /\ reads = {}

(***************************************************************************)
(* Specifications                                                          *)
(***************************************************************************)
Init == SculptInit /\ PackInit /\ DiamondInit /\ FrameInit

Next ==
    \/ InitialBuild
    \/ Regenerate
    \/ NewSeed
    \/ ApplyBalance
    \/ BuildStep

Spec == Init /\ [][Next]_vars

\* buildSculpture is synchronous: once called it runs on until it returns.
FairSpec == Spec /\ WF_vars(BuildStep)

PackNext ==
    \/ PackCall
    \/ PackTrial
    \/ PackReturn

PackSpec == Init /\ [][PackNext]_vars

\* pack is synchronous: once called it runs on until it returns.
PackFairSpec == PackSpec /\ WF_vars(PackStep)

DiamondNext ==
    \/ NewDiamond
    \/ SliceEnter
    \/ GeometryReturn
    \/ RingEnter
    \/ RingExit
    \/ CubeStamp
    \/ CubeExit

DiamondSpec == Init /\ [][DiamondNext]_vars

DiamondStep ==
    \/ SliceEnter
    \/ GeometryReturn
    \/ RingEnter
    \/ RingExit
    \/ CubeStamp
    \/ CubeExit

\* createGeometry is synchronous: once called it runs on until it returns.
DiamondFairSpec == DiamondSpec /\ WF_vars(DiamondStep)

FrameNext ==
    \/ LoadScript
    \/ RegenerateClick
    \/ BalanceInput
    \/ ApplyBalanceClick
    \/ NewSeedClick
    \/ ShuffleSwap
    \/ ShuffleExit
    \/ CopyStep
    \/ CopyExit
    \/ FrameStep
    \/ FrameLoopExit

FrameSpec == Init /\ [][FrameNext]_vars

(***************************************************************************)
(* Reference definitions used by the properties of the sculpture pipeline  *)
(***************************************************************************)
RECURSIVE ComposeFrom(_, _, _)
ComposeFrom(acc, list, k) ==
    IF k > Len(list) THEN acc
    ELSE ComposeFrom(Evaluate(acc, list[k], "ADDITION"), list, k + 1)

\* The union of a list of primitives when every ADDITION succeeds.
ComposeAll(list) ==
    IF Len(list) = 0 THEN NoBrush ELSE ComposeFrom(list[1], list, 2)

RECURSIVE RemoveFailed(_, _, _)
\* The list without the primitives whose (0-based) index is in failed.
RemoveFailed(list, failed, k) ==
    IF k > Len(list) THEN << >>
    ELSE (IF (k - 1) \in failed THEN << >> ELSE << list[k] >>)
         \o RemoveFailed(list, failed, k + 1)

HasPlate(b) == \E k \in 1..Len(b.parts) : b.parts[k] = <<"P", 0>>

Building == pc # "ready"

Completed ==
    /\ pc = "ready"
    /\ downloadEnabled
    /\ IsSet(darkMergedBrush)
    /\ \E k \in 1..Len(sculptureGroup) : sculptureGroup[k] = darkMergedBrush
    /\ IsSet(lightMergedBrush) =>
         \E k \in 1..Len(sculptureGroup) : sculptureGroup[k] = lightMergedBrush

(***************************************************************************)
(* C1: in each class fold the accumulator equals, at every point of the    *)
(* loop and when the loop has ended, the fold of the primitives processed  *)
(* so far with the failed ones removed: a failed ADDITION (thrown or       *)
(* invalid) leaves the accumulator as it was and later successful steps    *)
(* are still applied.                                                      *)
(***************************************************************************)
C1_FoldSkipsFailed ==
    /\ (pc \in {"lightLoop", "dark", "darkLoop", "plate", "subtract"}
          /\ Len(allLightCubes) > 0)
       => lightMergedBrush =
            ComposeAll(RemoveFailed(
                SubSeq(allLightCubes, 1,
                       IF pc = "lightLoop" THEN i ELSE Len(allLightCubes)),
                lightFailed, 1))
    /\ (pc \in {"darkLoop", "plate"} /\ Len(allDarkCubes) > 0)
       => darkMergedBrush =
            ComposeAll(RemoveFailed(
                SubSeq(allDarkCubes, 1,
                       IF pc = "darkLoop" THEN i ELSE Len(allDarkCubes)),
                darkFailed, 1))

\* A light fold of three primitives whose first ADDITION failed and whose
\* second succeeded has ended.
C1_Witness ==
    /\ pc = "dark"
    /\ Len(allLightCubes) = 3
    /\ lightFailed = {1}
    /\ Len(lightMergedBrush.parts) = 2

(***************************************************************************)
(* C2: after Step 2 the dark solid contains the base plate, and whenever   *)
(* the plate ADDITION failed (threw or returned an invalid result) the     *)
(* dark solid is the plate alone.                                          *)
(***************************************************************************)
C2_PlateAlwaysInDark ==
    pc = "subtract" =>
        /\ HasPlate(darkMergedBrush)
        /\ plateOutcome \in {"throw", "invalid"} => darkMergedBrush = baseBrush

(***************************************************************************)
(* C3: after every build the dark solid is set, and if the build produced  *)
(* no light primitives the light solid is unset, no SUBTRACTION was        *)
(* attempted and the scene group holds the dark solid only.                *)
(***************************************************************************)
C3_NoLightPrimitivesNoLightSolid ==
    (pc = "ready" /\ builds >= 1) =>
        /\ IsSet(darkMergedBrush)
        /\ allLightCubes = << >> =>
             /\ ~IsSet(lightMergedBrush)
             /\ subOutcome = "none"
             /\ sculptureGroup = << darkMergedBrush >>

(***************************************************************************)
(* C4: a build's solids are computed from that build's primitives and the  *)
(* outcomes of its boolean operations alone: with no dark primitives the   *)
(* dark solid is the plate alone, the light solid is the fold of this      *)
(* build's light primitives (minus the dark solid if the SUBTRACTION       *)
(* succeeded), and no disposed geometry is an operand of the plate         *)
(* ADDITION or of the SUBTRACTION, or is added to the scene.               *)
(***************************************************************************)
C4_BuildFromScratch ==
    /\ (pc = "ready" /\ builds >= 1) =>
         /\ allDarkCubes = << >> => darkMergedBrush = BasePlate
         /\ lightMergedBrush =
              SubtractResult(ComposeAll(RemoveFailed(allLightCubes, lightFailed, 1)),
                             darkMergedBrush, subOutcome)
         /\ \A k \in 1..Len(sculptureGroup) : ~sculptureGroup[k].disposed
    /\ pc = "plate" => ~darkMergedBrush.disposed
    /\ pc = "subtract" => ~lightMergedBrush.disposed /\ ~darkMergedBrush.disposed

(***************************************************************************)
(* C5: Step 3 never changes the dark solid, and when the SUBTRACTION       *)
(* throws or returns an invalid result (one that fails the test of line    *)
(* 278) it leaves the light solid identical to what it was.                *)
(***************************************************************************)
C5_InterlockFrame ==
    [][pc = "subtract" =>
         /\ darkMergedBrush' = darkMergedBrush
         /\ subOutcome' \in {"throw", "invalid"} =>
              lightMergedBrush' = lightMergedBrush]_vars

\* Step 3 has run and its SUBTRACTION returned an invalid result.
C5_Witness ==
    /\ pc = "scene"
    /\ subOutcome = "invalid"
    /\ IsSet(lightMergedBrush)

(***************************************************************************)
(* C6: no failure of a boolean operation leaves buildSculpture, and every  *)
(* build that has started runs on to completion: the solids are in the     *)
(* scene group and the download buttons are enabled.                       *)
(***************************************************************************)
C6_BuildCompletes ==
    /\ [](pc \in {"ready", "light", "lightLoop", "dark", "darkLoop",
                  "plate", "subtract", "scene"})
    /\ Building ~> Completed

\* A build has completed in which an ADDITION of a fold failed, the plate
\* ADDITION threw and the SUBTRACTION threw.
C6_Witness ==
    /\ Completed
    /\ lightFailed # {}
    /\ plateOutcome = "throw"
    /\ subOutcome = "throw"

(***************************************************************************)
(* C7: at every point during and after pack, any two distinct accepted     *)
(* circles are at least the sum of their radii apart and every accepted    *)
(* circle lies strictly inside the bounding rectangle.                     *)
(***************************************************************************)
C7_PackingValid ==
    /\ \A a, b \in 1..Len(circles) :
         a # b =>
           LET dx == circles[a].x - circles[b].x
               dy == circles[a].y - circles[b].y
               sum == circles[a].radius + circles[b].radius
           IN  dx * dx + dy * dy >= sum * sum
    /\ \A a \in 1..Len(circles) :
         LET c == circles[a]
             absx == IF c.x < 0 THEN -c.x ELSE c.x
             absy == IF c.y < 0 THEN -c.y ELSE c.y
         IN  /\ 2 * (absx + c.radius) < BoundsWidth
             /\ 2 * (absy + c.radius) < BoundsHeight

\* Two circles have been accepted and at least one candidate was rejected.
C7_Witness ==
    /\ Len(circles) = 2
    /\ trial > placed

(***************************************************************************)
(* C8: pack makes at most Attempts trials, makes no trial once count       *)
(* circles are accepted, holds at most count circles, appended in          *)
(* acceptance order, returns only when count is reached or the budget is   *)
(* spent, always returns, and every call starts from an empty list.        *)
(***************************************************************************)
C8_PackTerminates ==
    /\ [](/\ trial <= Attempts
          /\ Len(circles) = placed
          /\ placed <= count
          /\ packPc = "returned" => (placed = count \/ trial = Attempts))
    /\ [][/\ trial' = trial + 1 => placed < count /\ trial < Attempts
          /\ packCalls' # packCalls => circles' = << >>
          /\ packCalls' = packCalls =>
               \/ circles' = circles
               \/ /\ Len(circles') = Len(circles) + 1
                  /\ SubSeq(circles', 1, Len(circles)) = circles]_vars
    /\ (packPc = "loop") ~> (packPc = "returned")

\* A second call on the same packer returned fewer circles than asked for
\* after the attempt budget was spent.
C8_Witness ==
    /\ packPc = "returned"
    /\ packCalls = 2
    /\ trial = Attempts
    /\ placed < count
    /\ placed >= 1

(***************************************************************************)
(* Reference definitions used by the properties of the diamond mesh        *)
(***************************************************************************)
NumVertices == Len(positions) \div 3

\* The y-coordinate of vertex v (0-based) of the mesh.
VertexY(v) == positions[3 * v + 2]

\* Index slot j (1-based) belongs to the cube stamped as number (j-1) \div 36
\* and refers to one of that cube's own 8 vertices.
OwnVertex(j) ==
    LET c == (j - 1) \div 36
    IN  /\ 8 * c <= indices[j]
        /\ indices[j] < 8 * c + 8
        /\ indices[j] < NumVertices

\* Vertices and index slots checked in every state: those of the cube
\* stamped last.  When createGeometry has returned, all are checked.
VerticesToCheck ==
    IF diamondPc = "done" THEN 0..(NumVertices - 1)
    ELSE Max(0, NumVertices - 8)..(NumVertices - 1)
SlotsToCheck ==
    IF diamondPc = "done" THEN 1..Len(indices)
    ELSE Max(1, Len(indices) - 35)..Len(indices)

(***************************************************************************)
(* C9: after every addCube call the index list is a whole number of        *)
(* triangles, every stamped cube has contributed exactly 8 vertices and    *)
(* 12 triangles, and every index is below the vertex count and refers to   *)
(* one of the 8 vertices of the cube it was pushed for.                    *)
(***************************************************************************)
C9_MeshIndicesValid ==
    /\ Len(indices) % 3 = 0
    /\ Len(positions) % 24 = 0
    /\ Len(indices) = 36 * (Len(positions) \div 24)
    /\ \A j \in SlotsToCheck : OwnVertex(j)

\* createGeometry has returned a mesh of at least two cubes, and the last
\* index pushed is the first vertex of the last cube (face [4, 1, 0]).
C9_Witness ==
    /\ diamondPc = "done"
    /\ Len(positions) >= 48
    /\ indices[Len(indices)] = NumVertices - 8

(***************************************************************************)
(* C10 as stated: every vertex y-coordinate lies within                    *)
(* [-height, 0.4 * height].                                                *)
(***************************************************************************)
C10_VertexYWithinHeights ==
    \A v \in VerticesToCheck :
        /\ VertexY(v) >= -(diamondHeight * Scale(layers))
        /\ 10 * VertexY(v) <= 4 * diamondHeight * Scale(layers)

(***************************************************************************)
(* C10 as amended: the cube centres lie within [-height, 0.4 * height],    *)
(* and every vertex y-coordinate lies within                               *)
(* [-height, 0.4 * height + 0.475 * cubeSize].                             *)
(***************************************************************************)
C10_VertexYWithinHalfCube ==
    /\ diamondPc = "cube" =>
         /\ sliceY >= -(diamondHeight * Scale(layers))
         /\ 10 * sliceY <= 4 * diamondHeight * Scale(layers)
    /\ \A v \in VerticesToCheck :
         /\ VertexY(v) >= -(diamondHeight * Scale(layers))
         /\ 400 * VertexY(v) <=
              160 * diamondHeight * Scale(layers)
              + 190 * CubeSize(diamondRadius, diamondHeight, layers)

\* createGeometry has returned a mesh, and the top of the last cube stamped
\* is above 0.4 * height.
C10_Witness ==
    /\ diamondPc = "done"
    /\ Len(positions) > 0
    /\ 10 * positions[Len(positions) - 1] > 4 * diamondHeight * Scale(layers)

\* C11: a diamond whose radius or height is 0 (cubeSize 0) is still
\* synthesized to the end: createGeometry returns, with non-empty position
\* and index lists whose indices all refer to a vertex.
C11_DegenerateReturnsMesh ==
    (diamondPc = "slice" /\ Min(diamondRadius, diamondHeight) = 0)
        ~> (/\ diamondPc = "done"
            /\ Len(positions) > 0
            /\ Len(indices) > 0
            /\ \A k \in 1..Len(indices) : indices[k] < NumVertices)

(***************************************************************************)
(* Reference definitions used by the properties of the frame generator     *)
(***************************************************************************)
\* A frame of the running build has been generated: the lists hold it.
FrameDrawn == framePc = "frames" /\ reads # {}

\* The size argument of the last drawCubeFrame call.
LastSize == frameI - iPlus

\* The boundary lattice points of the frame drawCubeFrame(4 * size, size).
BoundaryPoints(size) ==
    { pt \in {-2 * size, -size, 0, size, 2 * size}
              \X {-2 * size, -size, 0, size, 2 * size} :
        Abs(pt[1]) = 2 * size \/ Abs(pt[2]) = 2 * size }

\* The lattice points of the primitives of a list.
PointsOf(cubes) == { << cubes[k].x, cubes[k].y >> : k \in 1..Len(cubes) }

\* Twice the normalized noise sample of the cell of a primitive.
NormalizedNoise2(c, size) ==
    noise(2 * Abs(c.x), 2 * Abs(c.y), Twentieth * size) + NoiseOne

\* The raw noise sample of the cell of a primitive.
RawNoise(c) == noise(Abs(c.x), Abs(c.y), 0)

\* The pairs (twice the normalized noise value, height) of a list.
NoiseHeights(cubes, size) ==
    { << NormalizedNoise2(cubes[k], size), cubes[k].height >> :
        k \in 1..Len(cubes) }

\* The primitives of the last frame.
FrameCubes ==
    { lightCubes[k] : k \in 1..Len(lightCubes) }
      \cup { darkCubes[k] : k \in 1..Len(darkCubes) }

C14_MirrorSymmetry ==
    FrameDrawn =>
      \A a, b \in FrameCubes :
        ((a.x = b.x \/ a.x = -b.x) /\ (a.y = b.y \/ a.y = -b.y)) =>
          /\ a.isDark = b.isDark
          /\ a.height = b.height
          /\ a.z = b.z

\* After a reseed that changed the table, a frame holds light and dark
\* primitives, and two primitives of different heights off the axes.
C14_Witness ==
    /\ FrameDrawn
    /\ permutation # InitialPermutation
    /\ lightCubes # << >>
    /\ darkCubes # << >>
    /\ \E a, b \in FrameCubes :
         a.x # 0 /\ a.y # 0 /\ b.x # 0 /\ b.y # 0 /\ a.height # b.height

\* The base table holds each value below TableSize exactly once.
IsPermutation(perm) ==
    /\ DOMAIN perm = 0..(TableSize - 1)
    /\ { perm[k] : k \in 0..(TableSize - 1) } = 0..(TableSize - 1)

\* The lookup table is the base table twice over.
IsDuplicated(table, perm) ==
    /\ DOMAIN table = 0..(2 * TableSize - 1)
    /\ \A k \in 0..(TableSize - 1) :
         table[k] = perm[k] /\ table[k + TableSize] = perm[k]

(***************************************************************************)
(* C15: the base table is a permutation of the values below its size at    *)
(* every moment; whenever buildSculpture runs, and so whenever noise reads *)
(* p, p is the base table twice over, so no read sees a table that is      *)
(* being shuffled or copied; and every index noise reads lies within p.    *)
(***************************************************************************)
C15_TableConsistent ==
    /\ IsPermutation(permutation)
    /\ framePc = "frames" => IsDuplicated(p, permutation)
    /\ reads \subseteq 0..(2 * TableSize - 1)
    /\ reads # {} => framePc = "frames"

\* After a reseed that changed the table, a frame has been generated and
\* noise has read the upper half of p.
C15_Witness ==
    /\ FrameDrawn
    /\ permutation # InitialPermutation
    /\ \E k \in reads : k >= TableSize

\* The boolean operations of a fold over n primitives (lines 211-213).
FoldOperations(n) == IF n > 0 THEN n - 1 ELSE 0

(***************************************************************************)
(* C16: iSet and iPlus are integers in 5..9 whenever a build runs or has   *)
(* run; every frame has 16 primitives; when the frame loop ends the build  *)
(* has generated 16 * ((65 - iSet) \div iPlus + 1) primitives, between 112 *)
(* and 208, and its two folds make at most that many boolean operations.   *)
(***************************************************************************)
C16_PrimitiveCount ==
    /\ framePc # "load" => iSet \in 5..9 /\ iPlus \in 5..9
    /\ FrameDrawn => Len(lightCubes) + Len(darkCubes) = 16
    /\ (framePc = "frames" /\ frameI > FrameLimit) =>
         /\ numLight + numDark = 16 * ((FrameLimit - iSet) \div iPlus + 1)
         /\ numLight + numDark >= 112
         /\ numLight + numDark <= 208
         /\ FoldOperations(numLight) + FoldOperations(numDark)
              <= numLight + numDark

(***************************************************************************)
(* C13: a result without vertices is discarded like a failed one, so no    *)
(* accumulator ever holds a solid with empty position data: neither        *)
(* accumulator, and no solid of the scene group, is the empty solid.       *)
(***************************************************************************)
C13_NoEmptyAccumulator ==
    /\ lightMergedBrush # EmptySolid
    /\ darkMergedBrush # EmptySolid
    /\ \A k \in 1..Len(sculptureGroup) : sculptureGroup[k] # EmptySolid

====
